---- MODULE Spec2Model ----
(***************************************************************************)
(* Chain allocator (CChainAllocator<T>), the growable array built on it    *)
(* (CDynArray<T>) and the small-buffer array (CDynArraySB), from           *)
(* src/game/editor/editor2.h.                                              *)
(*                                                                         *)
(* Memory is modelled at byte granularity: the ring bitmap, the bytes      *)
(* between the bitmap and the element buffer, the element buffer and the   *)
(* malloc'ed fallback blocks all live in one address space, "mem", because *)
(* the allocator reads 8 bitmap bytes at once (and so reads past the end   *)
(* of the bitmap) and writes through raw pointers.                         *)
(***************************************************************************)
EXTENDS Integers, FiniteSets, Sequences, TLC

\* ------------------------------------------------------------------ bounds
SizeofT    == 1    \* sizeof(T) of the element type, in bytes
MaxBlocks  == 2    \* CMemBlock descriptors held by the direct caller
MaxOps     == 4    \* calls made after the Init() calls in one run
MaxArrays  == 2    \* CDynArray objects bound to the allocator
MaxDynOps  == 3    \* CDynArray calls made after the Init() calls in one run
MaxOver    == 1    \* largest request is 2*ELT_COUNT_MAX + MaxOver elements

\* --------------------------------------------------- environment constants
NULL       == 0
PoolBase   == 1000   \* address mem_alloc returns for the pool reservation
JunkByte   == 165    \* a non-zero byte of never-written memory

\* (ElementCountMax, RingElementCount) pairs passed to Init
Configs    == { <<12, 1>>, <<16, 2>>, <<64, 8>> }
\* number of leading zero bytes in the never-written memory that follows
\* the bitmap (the remaining never-written bytes are non-zero)
JunkZeros  == { 0, 4, 8 }
WriteVals  == { 7 }

Min(a, b) == IF a < b THEN a ELSE b
Max(a, b) == IF a > b THEN a ELSE b

VARIABLES
    m_AllocatedSize,   \* CChainAllocator::m_AllocatedSize
    m_aRingUsed,       \* CChainAllocator::m_aRingUsed (address, NULL before Init)
    m_pElementBuffer,  \* CChainAllocator::m_pElementBuffer (address)
    ELT_COUNT_MAX,     \* CChainAllocator::ELT_COUNT_MAX
    RING_ELT_COUNT,    \* CChainAllocator::RING_ELT_COUNT
    mem,               \* byte memory: address -> 0..255
    heapLive,          \* live mem_alloc'ed fallback regions: [base, size]
    blocks,            \* CMemBlock descriptors of the direct caller
    origin,            \* which exit of Alloc built each descriptor's block
    wrote,             \* addresses of the elements the direct caller wrote
    nOps,              \* calls made so far
    arrays,            \* the CDynArray objects bound to the allocator
    aborted,           \* the process died in a failed dbg_assert
    last,              \* the last call and what it returned
    ptr,               \* the T* the direct caller got from AllocOne (or NULL)
    sb                 \* a CDynArraySB: list, list_size, num_elements

avars == << m_AllocatedSize, m_aRingUsed, m_pElementBuffer, ELT_COUNT_MAX,
            RING_ELT_COUNT >>
vars  == << m_AllocatedSize, m_aRingUsed, m_pElementBuffer, ELT_COUNT_MAX,
            RING_ELT_COUNT, mem, heapLive, blocks, origin, wrote, nOps, arrays,
            aborted, last, ptr, sb >>

\* ------------------------------------------------------------ raw memory
\* const int TOTAL_RING_COUNT = (ELT_COUNT_MAX/RING_ELT_COUNT);
TOTAL_RING_COUNT == ELT_COUNT_MAX \div RING_ELT_COUNT

\* memset(addr, val, n); bytes outside the mapped memory are not modelled
memset(m, addr, val, n) ==
    [a \in DOMAIN m |-> IF a >= addr /\ a < addr + n THEN val ELSE m[a]]

mem_zero(m, addr, n) == memset(m, addr, 0, n)

\* mem_copy(dst, src, n) on non-overlapping regions
mem_copy(m, dst, src, n) ==
    [a \in DOMAIN m |-> IF a >= dst /\ a < dst + n THEN m[src + (a - dst)] ELSE m[a]]

\* the value of the T stored at address p (little endian)
RECURSIVE LoadBytes(_, _, _)
LoadBytes(m, p, n) ==
    IF n = 0 THEN 0 ELSE m[p] + 256 * LoadBytes(m, p + 1, n - 1)

LoadElt(m, p) == LoadBytes(m, p, SizeofT)

\* store the T value v (0..255) at address p
StoreElt(m, p, v) ==
    [a \in DOMAIN m |-> IF a = p THEN v
                        ELSE IF a > p /\ a < p + SizeofT THEN 0 ELSE m[a]]

\* Block.m_pStart[k]
EltAddr(p, k) == p + k * SizeofT

\* the elements of a block as a sequence of values
BlockElts(m, blk) == [k \in 1..blk.m_Count |-> LoadElt(m, EltAddr(blk.m_pStart, k - 1))]

\* the bytes the allocator treats as its element buffer
BufferEnd == m_pElementBuffer + SizeofT * ELT_COUNT_MAX

\* --------------------------------------------------------- call records
NullBlock == [m_pStart |-> NULL, m_Count |-> 0]

\* what an Alloc selected: the path taken, ChainRingStart, ChainRingCount
\* and the block built from them
NoAlloc == [path |-> "none", start |-> 0, rings |-> 0, blk |-> NullBlock]

\* the record of one call: its name, target, argument, allocation made
\* inside it and how it ended ("ok", or "assert" for a failed dbg_assert)
Call(op, h, arg, al, end) ==
    [op |-> op, h |-> h, arg |-> arg, al |-> al, end |-> end, pre |-> 0, ret |-> NULL]

\* the same for a CDynArray call: pre is Count() before the call, ret the
\* address of the reference it returned
ArrCall(op, a, arg, pre, al, ret, end) ==
    [op |-> op, h |-> a, arg |-> arg, al |-> al, end |-> end, pre |-> pre, ret |-> ret]

\* ----------------------------------------------------------------- Init()
\* memory handed out by mem_alloc is not initialised: the first z bytes
\* after the bitmap read as zero, every other never-written byte as non-zero
FreshPool(N, R, z) ==
    [a \in PoolBase .. PoolBase + N + SizeofT * N - 1 |->
        IF a < PoolBase + (N \div R) THEN 0
        ELSE IF a < PoolBase + (N \div R) + z THEN 0 ELSE JunkByte]

\* CChainAllocator::Init(ElementCountMax, RingElementCount)
ChainInit(N, R, z) ==
    /\ ~aborted
    /\ ELT_COUNT_MAX' = N
    /\ RING_ELT_COUNT' = R
    /\ IF m_pElementBuffer # NULL
       THEN \* dbg_assert(m_pElementBuffer == 0, "Don't init this twice")
            /\ aborted' = TRUE
            /\ UNCHANGED << m_AllocatedSize, m_aRingUsed, m_pElementBuffer, mem >>
       ELSE /\ m_AllocatedSize' = (N \div R) + SizeofT * N
            /\ m_aRingUsed' = PoolBase
            /\ m_pElementBuffer' = PoolBase + N
            /\ mem' = FreshPool(N, R, z)
            /\ aborted' = FALSE
    /\ last' = Call("Init", 0, N, NoAlloc, IF aborted' THEN "assert" ELSE "ok")
    /\ UNCHANGED << heapLive, blocks, origin, wrote, nOps, arrays, ptr, sb >>

\* ------------------------------------------------------------ Alloc scan
\* u64 Ring8 = *(u64*)(m_aRingUsed+i);
Ring8(m, aRing, i) == [k \in 0..7 |-> m[aRing + i + k]]

Ring8IsZero(w) == \A k \in 0..7 : w[k] = 0
Ring8IsFull(w) == \A k \in 0..7 : w[k] = 255

\* rings taken (and skipped) when the 8 bytes read are all zero
ZeroStep(Count) == Min(Count, 8)

\* ChainRingStart after a window of 8 used rings read at i
FullRestart(i) == i + 8

\* (a scan that forgets to step over the used ring)
UsedRestart_Stay(i) == i

\* ChainRingStart after the used ring i
UsedRestart(i) == i + 1

\* the loop of Alloc from position i with ChainRingStart s, ChainRingCount c
RECURSIVE Scan(_, _, _, _, _, _, _, _)
Scan(m, aRing, Total, R, Count, i, s, c) ==
    IF i >= Total
    THEN [found |-> FALSE, ChainRingStart |-> s, ChainRingCount |-> c]
    ELSE LET w == Ring8(m, aRing, i) IN
         IF Ring8IsZero(w)
         THEN LET c2 == c + ZeroStep(Count) IN
              IF c2 * R >= Count
              THEN [found |-> TRUE, ChainRingStart |-> s, ChainRingCount |-> c2]
              ELSE Scan(m, aRing, Total, R, Count, i + ZeroStep(Count), s, c2)
         ELSE IF Ring8IsFull(w)
         THEN Scan(m, aRing, Total, R, Count, i + 8, FullRestart(i), 0)
         ELSE IF m[aRing + i] # 0
         THEN Scan(m, aRing, Total, R, Count, i + 1, UsedRestart(i), 0)
         ELSE LET c2 == c + 1 IN
              IF c2 * R >= Count
              THEN [found |-> TRUE, ChainRingStart |-> s, ChainRingCount |-> c2]
              ELSE Scan(m, aRing, Total, R, Count, i + 1, s, c2)

\* memset(m_aRingUsed+ChainRingStart, 0xFF, sizeof(u8)*ChainRingCount);
MarkRings(m, aRing, s, c) == memset(m, aRing + s, 255, c)

\* (an Alloc that hands the block out as it finds it)
ZeroBlock_Skip(m, blk) == m

\* mem_zero(Block.m_pStart, sizeof(T)*Block.m_Count);
ZeroBlock(m, blk) == mem_zero(m, blk.m_pStart, SizeofT * blk.m_Count)

\* addresses mem_alloc may return for a fallback block of n bytes: any
\* region disjoint from the live reservations; the model offers the one
\* ending where the pool reservation starts, the one starting where the
\* pool reservation (m_AllocatedSize bytes) ends, and one far above
MaxReq  == 2 * ELT_COUNT_MAX + MaxOver
FarBase == PoolBase + ELT_COUNT_MAX + SizeofT * ELT_COUNT_MAX + SizeofT * MaxReq

Overlap(b1, n1, b2, n2) == b1 < b2 + n2 /\ b2 < b1 + n1

MallocAddrs(hl, n) ==
    { a \in { PoolBase - n, PoolBase + m_AllocatedSize, FarBase } :
        \A r \in hl : ~Overlap(a, n, r.base, r.size) }

\* the pooled exit of Alloc (lines 152..163).  The bytes of the element
\* buffer that lie past the m_AllocatedSize bytes reserved by Init are
\* written like the others: they are mapped memory that mem_alloc may also
\* hand out to a fallback block (see MallocAddrs).
AllocPool(m, hl, sc) ==
    LET blk == [m_pStart |-> m_pElementBuffer
                              + sc.ChainRingStart * RING_ELT_COUNT * SizeofT,
                m_Count  |-> sc.ChainRingCount * RING_ELT_COUNT]
        m1  == MarkRings(m, m_aRingUsed, sc.ChainRingStart, sc.ChainRingCount)
        m2  == ZeroBlock(m1, blk)
        al  == [path |-> "pool", start |-> sc.ChainRingStart,
                rings |-> sc.ChainRingCount, blk |-> blk]
        \* dbg_assert(ChainRingStart*RING_ELT_COUNT + Block.m_Count <= ELT_COUNT_MAX)
        asserted == sc.ChainRingStart * RING_ELT_COUNT + blk.m_Count > ELT_COUNT_MAX
    IN  { [mem |-> m2, heapLive |-> hl, al |-> al,
           end |-> IF asserted THEN "assert" ELSE "ok"] }

\* the fallback exit of Alloc (lines 170..175), release build
AllocFallback(m, hl, Count) ==
    { [mem |-> [a \in DOMAIN m \cup (p .. p + SizeofT * Count - 1) |->
                   IF a >= p /\ a < p + SizeofT * Count THEN 0 ELSE m[a]],
       heapLive |-> hl \cup { [base |-> p, size |-> SizeofT * Count] },
       al |-> [path |-> "heap", start |-> 0, rings |-> 0,
               blk |-> [m_pStart |-> p, m_Count |-> Count]],
       end |-> "ok"] : p \in MallocAddrs(hl, SizeofT * Count) }

\* CChainAllocator::Alloc(Count): every outcome of the call
AllocOutcomes(m, hl, Count) ==
    IF m_pElementBuffer = NULL
    THEN \* dbg_assert(m_pElementBuffer != 0, "Forgot to call Init()")
         { [mem |-> m, heapLive |-> hl, al |-> NoAlloc, end |-> "assert"] }
    ELSE LET sc == Scan(m, m_aRingUsed, TOTAL_RING_COUNT, RING_ELT_COUNT, Count, 0, 0, 0)
         IN  IF sc.found THEN AllocPool(m, hl, sc) ELSE AllocFallback(m, hl, Count)

\* mem_free(p): the region leaves the heap; bytes the allocator still
\* treats as its buffer stay mapped
mem_free(m, hl, p) ==
    LET gone == UNION { r.base .. r.base + r.size - 1 : r \in { q \in hl : q.base = p } }
        keep == (DOMAIN m \ gone) \cup (DOMAIN m \cap (PoolBase .. BufferEnd - 1))
    IN  [mem |-> [a \in keep |-> m[a]],
         heapLive |-> { q \in hl : q.base # p }]

\* (a Dealloc that leaves the descriptor as it found it)
Released_Keep(blk) == blk

\* pBlock->m_Count = 0;
Released(blk) == [blk EXCEPT !.m_Count = 0]

\* CChainAllocator::Dealloc(pBlock): memory, heap and *pBlock afterwards
DeallocResult(m, hl, blk) ==
    IF blk.m_Count <= 0
    THEN [mem |-> m, heapLive |-> hl, blk |-> blk]
    ELSE LET Start == (blk.m_pStart - m_pElementBuffer) \div SizeofT
             Count == blk.m_Count
         IN  IF Start >= 0 /\ Start + Count <= ELT_COUNT_MAX
             THEN [mem |-> mem_zero(m, m_aRingUsed + (Start \div RING_ELT_COUNT),
                                    Count \div RING_ELT_COUNT),
                   heapLive |-> hl,
                   blk |-> Released(blk)]
             ELSE [mem |-> mem_free(m, hl, blk.m_pStart).mem,
                   heapLive |-> mem_free(m, hl, blk.m_pStart).heapLive,
                   blk |-> Released(blk)]

\* ------------------------------------------------- direct use of the pool
AllocCounts == { 1, 5, 8, ELT_COUNT_MAX, ELT_COUNT_MAX + MaxOver }

\* Block = ChainAllocator.Alloc(Count) into the caller's descriptor h
Alloc(h, Count) ==
    /\ ~aborted
    /\ nOps < MaxOps
    /\ nOps' = nOps + 1
    /\ Count >= 1
    /\ blocks[h].m_Count = 0
    /\ \E o \in AllocOutcomes(mem, heapLive, Count) :
            /\ mem' = o.mem
            /\ heapLive' = o.heapLive
            /\ aborted' = (o.end # "ok")
            /\ blocks' = IF o.end = "ok" THEN [blocks EXCEPT ![h] = o.al.blk]
                                         ELSE blocks
            /\ origin' = IF o.end = "ok" THEN [origin EXCEPT ![h] = o.al.path]
                                         ELSE origin
            /\ last' = Call("Alloc", h, Count, o.al, o.end)
    /\ UNCHANGED << avars, wrote, arrays, ptr, sb >>

\* ChainAllocator.Dealloc(&Block) on the caller's descriptor h
Dealloc(h) ==
    /\ ~aborted
    /\ nOps < MaxOps
    /\ nOps' = nOps + 1
    /\ blocks[h].m_pStart # NULL
    /\ LET r == DeallocResult(mem, heapLive, blocks[h]) IN
       /\ mem' = r.mem
       /\ heapLive' = r.heapLive
       /\ blocks' = [blocks EXCEPT ![h] = r.blk]
    /\ last' = Call("Dealloc", h, blocks[h].m_Count, NoAlloc, "ok")
    /\ UNCHANGED << avars, origin, wrote, arrays, aborted, ptr, sb >>

\* Block.Get()[k] = v by the holder of a live block
WriteElt(h, k, v) ==
    /\ ~aborted
    /\ nOps < MaxOps
    /\ blocks[h].m_Count > 0
    /\ k \in { 0, blocks[h].m_Count - 1 }
    /\ mem' = StoreElt(mem, EltAddr(blocks[h].m_pStart, k), v)
    /\ wrote' = wrote \cup { EltAddr(blocks[h].m_pStart, k) }
    /\ nOps' = nOps + 1
    /\ last' = Call("Write", h, k, NoAlloc, "ok")
    /\ UNCHANGED << avars, heapLive, blocks, origin, arrays, aborted, ptr, sb >>

\* p = ChainAllocator.AllocOne(): return Alloc(1).Get();
AllocOne ==
    /\ ~aborted
    /\ nOps < MaxOps
    /\ nOps' = nOps + 1
    /\ ptr = NULL
    /\ \E o \in AllocOutcomes(mem, heapLive, 1) :
            /\ mem' = o.mem
            /\ heapLive' = o.heapLive
            /\ aborted' = (o.end # "ok")
            /\ ptr' = IF o.end = "ok" THEN o.al.blk.m_pStart ELSE ptr
            /\ last' = Call("AllocOne", 0, 1, o.al, o.end)
    /\ UNCHANGED << avars, blocks, origin, wrote, arrays, sb >>

\* the descriptor DeallocOne builds: Block.m_pStart = pPtr; Block.m_Count = 1;
OneBlock(pPtr) == [m_pStart |-> pPtr, m_Count |-> 1]

\* ChainAllocator.DeallocOne(p)
DeallocOne ==
    /\ ~aborted
    /\ nOps < MaxOps
    /\ nOps' = nOps + 1
    /\ ptr # NULL
    /\ LET r == DeallocResult(mem, heapLive, OneBlock(ptr)) IN
       /\ mem' = r.mem
       /\ heapLive' = r.heapLive
    /\ ptr' = NULL
    /\ last' = Call("DeallocOne", 0, ptr, NoAlloc, "ok")
    /\ UNCHANGED << avars, blocks, origin, wrote, arrays, aborted, sb >>

\* ---------------------------------------------------------- CDynArray
\* CDynArray(): m_pAllocator = 0 (1 stands for the address of the allocator)
NewArray == [m_pAllocator |-> NULL, m_MemBlock |-> NullBlock, m_EltCount |-> 0]

Capacity(arr) == arr.m_MemBlock.m_Count
Data(arr)     == arr.m_MemBlock.m_pStart

\* CDynArray() sets m_pAllocator only: until Init, m_MemBlock and m_EltCount
\* hold whatever the object's storage held (zeros in static storage, or a
\* stale count)
Garbage == { [m_MemBlock |-> NullBlock, m_EltCount |-> 0],
             [m_MemBlock |-> [m_pStart |-> NULL, m_Count |-> 8], m_EltCount |-> 0] }

\* the array as a method reads it when the uninitialised fields read as g
Seen(arr, g) ==
    IF arr.m_pAllocator # NULL THEN arr
    ELSE [arr EXCEPT !.m_MemBlock = g.m_MemBlock, !.m_EltCount = g.m_EltCount]

\* the live elements of an array, index 0 first
Elts(m, arr) == [k \in 1..arr.m_EltCount |-> LoadElt(m, EltAddr(Data(arr), k - 1))]

\* the values elts stored from address p on
RECURSIVE StoreSeq(_, _, _)
StoreSeq(m, p, elts) ==
    IF elts = << >> THEN m
    ELSE StoreSeq(StoreElt(m, p, Head(elts)), p + SizeofT, Tail(elts))

\* CDynArray::Init(pAllocator)
DynInit(a) ==
    /\ ~aborted
    /\ IF arrays[a].m_pAllocator # NULL
       THEN \* dbg_assert(!m_pAllocator, "Init already called")
            /\ aborted' = TRUE
            /\ UNCHANGED arrays
       ELSE /\ arrays' = [arrays EXCEPT ![a] =
                  [m_pAllocator |-> 1, m_MemBlock |-> NullBlock, m_EltCount |-> 0]]
            /\ aborted' = FALSE
    /\ last' = ArrCall("DynInit", a, 0, 0, NoAlloc, NULL,
                       IF aborted' THEN "assert" ELSE "ok")
    /\ UNCHANGED << avars, mem, heapLive, blocks, origin, wrote, nOps, ptr, sb >>

\* mem_copy(NewBlock.m_pStart, Data(), Capacity()*sizeof(T));
ReserveCopy(m, NewBlock, arr) ==
    mem_copy(m, NewBlock.m_pStart, Data(arr), Capacity(arr) * SizeofT)

\* CDynArray::Reserve(NewCapacity): every outcome
ReserveOutcomes(m, hl, arr, NewCapacity) ==
    IF arr.m_pAllocator = NULL
    THEN \* dbg_assert(m_pAllocator != 0, "Forgot to call Init")
         { [mem |-> m, heapLive |-> hl, arr |-> arr, al |-> NoAlloc, end |-> "assert"] }
    ELSE IF NewCapacity <= Capacity(arr)
    THEN { [mem |-> m, heapLive |-> hl, arr |-> arr, al |-> NoAlloc, end |-> "ok"] }
    ELSE { IF o.end # "ok"
           THEN [mem |-> o.mem, heapLive |-> o.heapLive, arr |-> arr,
                 al |-> o.al, end |-> o.end]
           ELSE LET m1 == ReserveCopy(o.mem, o.al.blk, arr)
                    d  == DeallocResult(m1, o.heapLive, arr.m_MemBlock)
                IN  [mem |-> d.mem, heapLive |-> d.heapLive,
                     arr |-> [arr EXCEPT !.m_MemBlock = o.al.blk],
                     al |-> o.al, end |-> "ok"]
           : o \in AllocOutcomes(m, hl, NewCapacity) }

\* (an append that never grows the block)
MustGrow_Never(arr, Count) == FALSE

\* if(m_EltCount+Count >= Capacity()) of Add and AddEmpty
MustGrow(arr, Count) == arr.m_EltCount + Count >= Capacity(arr)

\* (a growth that reserves room for the new elements only)
GrowTo_Exact(arr, Count) == arr.m_EltCount + Count

\* Reserve(max(Capacity() * 2, m_EltCount+Count)) argument
GrowTo(arr, Count) == Max(Capacity(arr) * 2, arr.m_EltCount + Count)

\* CDynArray::Add(aElements, Count): every outcome
AddOutcomes(m, hl, arr, elts) ==
    LET Count == Len(elts)
        rs == IF MustGrow(arr, Count)
              THEN ReserveOutcomes(m, hl, arr, GrowTo(arr, Count))
              ELSE { [mem |-> m, heapLive |-> hl, arr |-> arr, al |-> NoAlloc,
                      end |-> "ok"] }
    IN  { IF r.end # "ok"
          THEN [mem |-> r.mem, heapLive |-> r.heapLive, arr |-> r.arr,
                al |-> r.al, ret |-> NULL, end |-> r.end]
          ELSE IF Data(r.arr) = NULL /\ Count > 0
          THEN \* mem_copy through a null Data(): the process dies in the store
               [mem |-> r.mem, heapLive |-> r.heapLive, arr |-> r.arr,
                al |-> r.al, ret |-> NULL, end |-> "fault"]
          ELSE [mem |-> StoreSeq(r.mem, EltAddr(Data(r.arr), r.arr.m_EltCount), elts),
                heapLive |-> r.heapLive,
                arr |-> [r.arr EXCEPT !.m_EltCount = r.arr.m_EltCount + Count],
                al |-> r.al,
                \* return *(Data()-Count);
                ret |-> Data(r.arr) - Count * SizeofT,
                end |-> "ok"]
          : r \in rs }

\* Array.Reserve(NewCapacity)
Reserve(a, NewCapacity) ==
    /\ ~aborted
    /\ nOps < MaxDynOps
    /\ NewCapacity <= MaxReq
    /\ \E r \in ReserveOutcomes(mem, heapLive, arrays[a], NewCapacity) :
        /\ mem' = r.mem
        /\ heapLive' = r.heapLive
        /\ arrays' = [arrays EXCEPT ![a] = r.arr]
        /\ aborted' = (r.end # "ok")
        /\ last' = ArrCall("Reserve", a, NewCapacity, arrays[a].m_EltCount,
                           r.al, NULL, r.end)
    /\ nOps' = nOps + 1
    /\ UNCHANGED << avars, blocks, origin, wrote, ptr, sb >>

\* Array.Add(aElements, Count) and Array.Add(Elt)
Add(a, elts) ==
    /\ ~aborted
    /\ nOps < MaxDynOps
    /\ GrowTo(arrays[a], Len(elts)) <= MaxReq
    /\ \E g \in Garbage : \E r \in AddOutcomes(mem, heapLive, Seen(arrays[a], g), elts) :
        /\ mem' = r.mem
        /\ heapLive' = r.heapLive
        /\ arrays' = IF r.end = "ok" THEN [arrays EXCEPT ![a] = r.arr] ELSE arrays
        /\ aborted' = (r.end # "ok")
        /\ last' = ArrCall("Add", a, elts, arrays[a].m_EltCount, r.al, r.ret, r.end)
    /\ nOps' = nOps + 1
    /\ UNCHANGED << avars, blocks, origin, wrote, ptr, sb >>

\* (a removal that drops the last element without moving it to Index)
SwapRemove_NoMove(m, arr, Index) ==
    [mem |-> m, arr |-> [arr EXCEPT !.m_EltCount = arr.m_EltCount - 1]]

\* Data()[Index] = Data()[m_EltCount-1]; m_EltCount--;
SwapRemove(m, arr, Index) ==
    [mem |-> StoreElt(m, EltAddr(Data(arr), Index),
                      LoadElt(m, EltAddr(Data(arr), arr.m_EltCount - 1))),
     arr |-> [arr EXCEPT !.m_EltCount = arr.m_EltCount - 1]]

\* Array.RemoveByIndex(Index)
RemoveByIndex(a, Index) ==
    /\ ~aborted
    /\ nOps < MaxDynOps
    /\ arrays[a].m_pAllocator # NULL
    /\ IF Index >= 0 /\ Index < arrays[a].m_EltCount
       THEN LET r == SwapRemove(mem, arrays[a], Index) IN
            /\ mem' = r.mem
            /\ arrays' = [arrays EXCEPT ![a] = r.arr]
            /\ aborted' = FALSE
       ELSE \* dbg_assert(Index >= 0 && Index < m_EltCount, "Index out of bounds")
            /\ aborted' = TRUE
            /\ UNCHANGED << mem, arrays >>
    /\ last' = ArrCall("RemoveByIndex", a, Index, arrays[a].m_EltCount, NoAlloc,
                       NULL, IF aborted' THEN "assert" ELSE "ok")
    /\ nOps' = nOps + 1
    /\ UNCHANGED << avars, heapLive, blocks, origin, wrote, ptr, sb >>

\* memmove(dst, src, n): the n bytes at src as they were before the call
memmove(m, dst, src, n) ==
    [a \in DOMAIN m |-> IF a >= dst /\ a < dst + n THEN m[src + (a - dst)] ELSE m[a]]

\* (a removal that fills the hole with the last element)
SlideRemove_Swap(m, arr, Index) == SwapRemove(m, arr, Index)

\* memmove(Data()+Index, Data()+Index+1, (m_EltCount-(Index+1))*sizeof(T));
\* m_EltCount--;
SlideRemove(m, arr, Index) ==
    [mem |-> memmove(m, EltAddr(Data(arr), Index), EltAddr(Data(arr), Index + 1),
                     (arr.m_EltCount - (Index + 1)) * SizeofT),
     arr |-> [arr EXCEPT !.m_EltCount = arr.m_EltCount - 1]]

\* Array.RemoveByIndexSlide(Index)
RemoveByIndexSlide(a, Index) ==
    /\ ~aborted
    /\ nOps < MaxDynOps
    /\ arrays[a].m_pAllocator # NULL
    /\ IF Index >= 0 /\ Index < arrays[a].m_EltCount
       THEN LET r == SlideRemove(mem, arrays[a], Index) IN
            /\ mem' = r.mem
            /\ arrays' = [arrays EXCEPT ![a] = r.arr]
            /\ aborted' = FALSE
       ELSE \* dbg_assert(Index >= 0 && Index < m_EltCount, "Index out of bounds")
            /\ aborted' = TRUE
            /\ UNCHANGED << mem, arrays >>
    /\ last' = ArrCall("RemoveByIndexSlide", a, Index, arrays[a].m_EltCount, NoAlloc,
                       NULL, IF aborted' THEN "assert" ELSE "ok")
    /\ nOps' = nOps + 1
    /\ UNCHANGED << avars, heapLive, blocks, origin, wrote, ptr, sb >>

\* CDynArray::AddEmpty(Count): every outcome
AddEmptyOutcomes(m, hl, arr, Count) ==
    IF Count <= 0
    THEN \* dbg_assert(Count > 0, "Add 0 or more")
         { [mem |-> m, heapLive |-> hl, arr |-> arr, al |-> NoAlloc, ret |-> NULL,
            end |-> "assert"] }
    ELSE LET rs == IF MustGrow(arr, Count)
                   THEN ReserveOutcomes(m, hl, arr, GrowTo(arr, Count))
                   ELSE { [mem |-> m, heapLive |-> hl, arr |-> arr, al |-> NoAlloc,
                           end |-> "ok"] }
         IN  { IF r.end # "ok"
               THEN [mem |-> r.mem, heapLive |-> r.heapLive, arr |-> r.arr,
                     al |-> r.al, ret |-> NULL, end |-> r.end]
               ELSE IF Data(r.arr) = NULL
               THEN \* mem_zero through a null Data(): the process dies in the store
                    [mem |-> r.mem, heapLive |-> r.heapLive, arr |-> r.arr,
                     al |-> r.al, ret |-> NULL, end |-> "fault"]
               ELSE [mem |-> mem_zero(r.mem, EltAddr(Data(r.arr), r.arr.m_EltCount),
                                      Count * SizeofT),
                     heapLive |-> r.heapLive,
                     arr |-> [r.arr EXCEPT !.m_EltCount = r.arr.m_EltCount + Count],
                     al |-> r.al,
                     \* return *(Data()-Count);
                     ret |-> Data(r.arr) - Count * SizeofT,
                     end |-> "ok"]
               : r \in rs }

\* Array.AddEmpty(Count)
AddEmpty(a, Count) ==
    /\ ~aborted
    /\ nOps < MaxDynOps
    /\ GrowTo(arrays[a], Count) <= MaxReq
    /\ \E g \in Garbage : \E r \in AddEmptyOutcomes(mem, heapLive, Seen(arrays[a], g), Count) :
        /\ mem' = r.mem
        /\ heapLive' = r.heapLive
        /\ arrays' = IF r.end = "ok" THEN [arrays EXCEPT ![a] = r.arr] ELSE arrays
        /\ aborted' = (r.end # "ok")
        /\ last' = ArrCall("AddEmpty", a, Count, arrays[a].m_EltCount, r.al, r.ret, r.end)
    /\ nOps' = nOps + 1
    /\ UNCHANGED << avars, blocks, origin, wrote, ptr, sb >>

\* Array[Index]
At(a, Index) ==
    /\ ~aborted
    /\ nOps < MaxDynOps
    /\ arrays[a].m_pAllocator # NULL
    /\ aborted' = ~(Index >= 0 /\ Index < arrays[a].m_EltCount)
    /\ last' = ArrCall("At", a, Index, arrays[a].m_EltCount, NoAlloc,
                       IF aborted' THEN NULL ELSE EltAddr(Data(arrays[a]), Index),
                       IF aborted' THEN "assert" ELSE "ok")
    /\ nOps' = nOps + 1
    /\ UNCHANGED << avars, mem, heapLive, blocks, origin, wrote, arrays, ptr, sb >>

\* CDynArray::Clear(): the outcome.  There is no dbg_assert: on an array
\* that was never Init'ed, m_pAllocator->Dealloc runs with a null this,
\* returns at once when the m_Count it reads is <= 0 and dies reading
\* this->m_pElementBuffer otherwise
ClearOutcome(m, hl, arr) ==
    IF arr.m_pAllocator = NULL /\ arr.m_MemBlock.m_Count > 0
    THEN [mem |-> m, heapLive |-> hl, arr |-> arr, end |-> "fault"]
    ELSE LET d == DeallocResult(m, hl, arr.m_MemBlock) IN
         [mem |-> d.mem, heapLive |-> d.heapLive,
          arr |-> [arr EXCEPT !.m_MemBlock = NullBlock, !.m_EltCount = 0],
          end |-> "ok"]

\* Array.Clear()
Clear(a) ==
    /\ ~aborted
    /\ nOps < MaxDynOps
    /\ \E g \in Garbage :
        LET r == ClearOutcome(mem, heapLive, Seen(arrays[a], g)) IN
        /\ mem' = r.mem
        /\ heapLive' = r.heapLive
        /\ arrays' = IF r.end = "ok" THEN [arrays EXCEPT ![a] = r.arr] ELSE arrays
        /\ aborted' = (r.end # "ok")
        /\ last' = ArrCall("Clear", a, 0, arrays[a].m_EltCount, NoAlloc, NULL, r.end)
    /\ nOps' = nOps + 1
    /\ UNCHANGED << avars, blocks, origin, wrote, ptr, sb >>

\* -------------------------------------------------------- CDynArraySB
BASE_COUNT == 2      \* template argument BASE_COUNT
BaseData   == 500    \* address of m_BaseData, the inline storage
SBHeap     == { 600, 700 }   \* addresses the array's allocator hands out

MaxSBLen   == 4      \* largest length passed to alloc and set_size_zero
MaxSBOps   == 4      \* CDynArraySB calls made in one run

\* CDynArraySB(): list = m_BaseData; list_size = BASE_COUNT;
NewSB == [list |-> BaseData, list_size |-> BASE_COUNT, num_elements |-> 0]

\* buffers the array's allocator may return: any but the one still in use
FreshBuf(s) == SBHeap \ { s.list }

\* ParentT::alloc(new_len): a separately allocated buffer p of new_len
\* elements becomes the storage and keeps the elements that fit
ParentAlloc(s, new_len, p) ==
    [list |-> p, list_size |-> new_len,
     num_elements |-> Min(s.num_elements, new_len)]

\* ParentT::clear(): the storage is released, the array is empty
ParentClear(s, p) == [list |-> p, list_size |-> 1, num_elements |-> 0]

\* ParentT::set_size(new_size): grows the storage when new_size exceeds the
\* capacity, then holds new_size elements
ParentSetSize(s, new_size, p) ==
    IF s.list_size < new_size
    THEN [ParentAlloc(s, new_size, p) EXCEPT !.num_elements = new_size]
    ELSE [s EXCEPT !.num_elements = new_size]

\* (a clear that goes back to the inline storage)
SBClearResult_Inline(s, p) == NewSB

\* CDynArraySB::clear()
SBClearResult(s, p) ==
    IF s.list = BaseData
    THEN [s EXCEPT !.list_size = BASE_COUNT, !.num_elements = 0]
    ELSE ParentClear(s, p)

\* CDynArraySB::alloc(new_len)
SBAllocResult(s, new_len, p) ==
    LET s1 == IF s.list = BaseData THEN [s EXCEPT !.list = NULL] ELSE s
    IN  ParentAlloc(s1, new_len, p)

\* CDynArraySB::set_size_zero(new_size); the elements' values are not modelled
SBSetSizeZeroResult(s, new_size, p) == ParentSetSize(s, new_size, p)

\* one call on the CDynArraySB object
SBCall(op, arg, result) ==
    /\ ~aborted
    /\ nOps < MaxSBOps
    /\ nOps' = nOps + 1
    /\ sb' = result
    /\ last' = ArrCall(op, 0, arg, sb.num_elements, NoAlloc, NULL, "ok")
    /\ UNCHANGED << avars, mem, heapLive, blocks, origin, wrote, arrays, aborted, ptr >>

SBClear == \E p \in FreshBuf(sb) : SBCall("SBClear", 0, SBClearResult(sb, p))
SBAlloc == \E n \in 1..MaxSBLen, p \in FreshBuf(sb) :
               SBCall("SBAlloc", n, SBAllocResult(sb, n, p))
SBSetSizeZero == \E n \in 0..MaxSBLen, p \in FreshBuf(sb) :
               SBCall("SBSetSizeZero", n, SBSetSizeZeroResult(sb, n, p))

NextSB == SBClear \/ SBAlloc \/ SBSetSizeZero

\* ------------------------------------------------------------------ Spec
\* CChainAllocator() and CDynArray() have run, nothing else
Init ==
    /\ m_AllocatedSize = 0
    /\ m_aRingUsed = NULL
    /\ m_pElementBuffer = NULL
    /\ ELT_COUNT_MAX = 0
    /\ RING_ELT_COUNT = 1
    /\ mem = [a \in {} |-> 0]
    /\ heapLive = {}
    /\ blocks = [h \in 1..MaxBlocks |-> NullBlock]
    /\ origin = [h \in 1..MaxBlocks |-> "none"]
    /\ wrote = {}
    /\ nOps = 0
    /\ arrays = [a \in 1..MaxArrays |-> NewArray]
    /\ aborted = FALSE
    /\ last = [op |-> "new", h |-> 0, arg |-> 0, al |-> NoAlloc, end |-> "ok",
               pre |-> 0, ret |-> NULL]
    /\ ptr = NULL
    /\ sb = NewSB

DoChainInit == \E cfg \in Configs, z \in JunkZeros : ChainInit(cfg[1], cfg[2], z)
DoAlloc     == \E h \in 1..MaxBlocks, c \in AllocCounts : Alloc(h, c)
DoDealloc   == \E h \in 1..MaxBlocks : Dealloc(h)
DoWriteElt  == \E h \in 1..MaxBlocks, k \in 0..MaxReq, v \in WriteVals :
                  WriteElt(h, k, v)

Next == DoChainInit \/ DoAlloc \/ DoDealloc \/ DoWriteElt \/ AllocOne
           \/ DeallocOne

Spec == Init /\ [][Next]_vars

\* the arrays and the allocator they are bound to
AddSeqs     == { <<10>>, <<10, 20, 30>>, <<10, 20, 30, 40>> }
ReserveCaps == { 5, ELT_COUNT_MAX + MaxOver }
AddEmptyCounts == { 0, 2 }

DoDynInit       == \E a \in 1..MaxArrays : DynInit(a)
DoReserve       == \E a \in 1..MaxArrays, c \in ReserveCaps : Reserve(a, c)
DoAdd           == \E a \in 1..MaxArrays, e \in AddSeqs : Add(a, e)
DoRemoveByIndex == \E a \in 1..MaxArrays :
                       \E i \in -1..arrays[a].m_EltCount : RemoveByIndex(a, i)
DoClear         == \E a \in 1..MaxArrays : Clear(a)
DoRemoveByIndexSlide == \E a \in 1..MaxArrays :
                       \E i \in -1..arrays[a].m_EltCount : RemoveByIndexSlide(a, i)
DoAddEmpty      == \E a \in 1..MaxArrays, c \in AddEmptyCounts : AddEmpty(a, c)
DoAt            == \E a \in 1..MaxArrays :
                       \E i \in { -1, arrays[a].m_EltCount - 1, arrays[a].m_EltCount } :
                           At(a, i)

NextDyn == DoChainInit \/ DoDynInit \/ DoReserve \/ DoAdd \/ DoRemoveByIndex
              \/ DoClear \/ DoRemoveByIndexSlide \/ DoAddEmpty \/ DoAt

SpecDyn == Init /\ [][NextDyn]_vars

SpecSB == Init /\ [][NextSB]_vars

\* ---------------------------------------------------------------- claims
\* element index of a block's first element in the pool buffer
StartOf(blk) == (blk.m_pStart - m_pElementBuffer) \div SizeofT

\* the rings [start/ring, (start+count)/ring) of a block
RingsOf(blk) ==
    { r \in 0..(2 * ELT_COUNT_MAX + 8) :
        /\ r >= StartOf(blk) \div RING_ELT_COUNT
        /\ r < (StartOf(blk) + blk.m_Count) \div RING_ELT_COUNT }

\* descriptor h holds a block issued by the pooled exit and not yet released
LivePooled(h) == blocks[h].m_Count > 0 /\ origin[h] = "pool"

\* the ring bitmap held in memory m
Bitmap(m) == [r \in 0..(TOTAL_RING_COUNT - 1) |-> m[m_aRingUsed + r]]

\* rings needed for Count elements
Need(Count) == (Count + RING_ELT_COUNT - 1) \div RING_ELT_COUNT

\* rings i .. i+n-1 exist and are all free in m
FreeRun(m, i, n) ==
    /\ i + n <= TOTAL_RING_COUNT
    /\ \A r \in i..(i + n - 1) : m[m_aRingUsed + r] = 0

RunExists(m, Count) == \E i \in 0..(TOTAL_RING_COUNT - 1) : FreeRun(m, i, Need(Count))

\* the start a one-ring-at-a-time first-fit scan selects
FirstFit(m, Count) ==
    CHOOSE i \in 0..(TOTAL_RING_COUNT - 1) :
        /\ FreeRun(m, i, Need(Count))
        /\ \A j \in 0..(i - 1) : ~FreeRun(m, j, Need(Count))

\* the block lies in the bytes the allocator uses as its element buffer
InsideBuffer(blk) ==
    /\ blk.m_pStart >= m_pElementBuffer
    /\ blk.m_pStart + SizeofT * blk.m_Count <= BufferEnd

OutsideBuffer(blk) ==
    \/ blk.m_pStart + SizeofT * blk.m_Count <= m_pElementBuffer
    \/ blk.m_pStart >= BufferEnd

AllZero(m, blk) == \A k \in 1..blk.m_Count : BlockElts(m, blk)[k] = 0

\* this step is a call of Alloc on an initialised allocator
AllocStep == nOps' # nOps /\ last'.op = "Alloc" /\ m_pElementBuffer # NULL

\* this step is a call of the CDynArray method op that returned
ArrStep(op) == nOps' # nOps /\ last'.op = op /\ last'.end = "ok"

\* C1: in every reachable state the ring ranges of any two live pooled
\* blocks are disjoint.
C1_DisjointRings ==
    \A h1 \in 1..MaxBlocks, h2 \in 1..MaxBlocks :
        (h1 # h2 /\ LivePooled(h1) /\ LivePooled(h2))
            => RingsOf(blocks[h1]) \cap RingsOf(blocks[h2]) = {}

\* C2: an Alloc, or a Dealloc of another block, leaves the start address and
\* the element values of every live block unchanged.
C2_LiveBlocksUntouched ==
    [][ \A h \in 1..MaxBlocks :
          ( /\ nOps' # nOps
            /\ last'.op \in { "Alloc", "Dealloc" }
            /\ last'.h # h
            /\ blocks[h].m_Count > 0 )
          => ( /\ blocks'[h] = blocks[h]
               /\ BlockElts(mem', blocks[h]) = BlockElts(mem, blocks[h]) ) ]_vars

\* C3: when the bitmap holds a contiguous run of free rings with room for
\* Count elements, Alloc(Count) returns a block inside the pool buffer and
\* does not take the fallback exit.
C3_PoolWhenRunExists ==
    [][ (AllocStep /\ RunExists(mem, last'.arg))
          => ( /\ last'.end = "ok"
               /\ last'.al.path = "pool"
               /\ InsideBuffer(last'.al.blk) ) ]_vars

\* C4: Alloc(Count) with Count > ELT_COUNT_MAX returns a fallback block of
\* exactly Count zero elements outside the pool, and neither that Alloc nor
\* the Dealloc of that block changes a bitmap entry.
C4_OversizeIsFallback ==
    [][ /\ (AllocStep /\ last'.arg > ELT_COUNT_MAX)
          => ( /\ last'.end = "ok"
               /\ last'.al.path = "heap"
               /\ last'.al.blk.m_Count = last'.arg
               /\ AllZero(mem', last'.al.blk)
               /\ OutsideBuffer(last'.al.blk)
               /\ Bitmap(mem') = Bitmap(mem) )
        /\ ( /\ nOps' # nOps
             /\ last'.op = "Dealloc"
             /\ origin[last'.h] = "heap"
             /\ blocks[last'.h].m_Count > ELT_COUNT_MAX )
          => Bitmap(mem') = Bitmap(mem) ]_vars

\* C5: a pooled Alloc(Count) returns the smallest multiple of RING_ELT_COUNT
\* that is >= Count and marks exactly that many rings used (Alloc(5) with
\* 64 elements in rings of 8 returns 8 elements in one ring).
C5_RoundsUpToRing ==
    [][ (AllocStep /\ last'.end = "ok" /\ last'.al.path = "pool")
          => ( /\ last'.al.blk.m_Count = Need(last'.arg) * RING_ELT_COUNT
               /\ Cardinality({ r \in 0..(TOTAL_RING_COUNT - 1) :
                                  Bitmap(mem')[r] # Bitmap(mem)[r] })
                    = Need(last'.arg) ) ]_vars

\* C6: whenever a sufficient free run exists, the 8-entries-at-once scan
\* leaves by the pooled exit with the block start a one-ring-at-a-time
\* first-fit scan selects: the lowest ring i with rings
\* i .. i+ceil(Count/ring)-1 all free.
C6_FirstFitStart ==
    [][ (AllocStep /\ RunExists(mem, last'.arg))
          => ( /\ last'.al.path = "pool"
               /\ last'.al.start = FirstFit(mem, last'.arg) ) ]_vars

\* C6 witness: a block was returned past used rings after a step of
\* several rings taken from one all-zero 8-byte read
C6_Witness ==
    /\ last.op = "Alloc" /\ last.end = "ok" /\ last.al.path = "pool"
    /\ last.al.start > 0
    /\ last.al.rings >= 5

\* C7: every block Alloc returns, pooled or fallback, has all its m_Count
\* elements zero when it is returned.
C7_ReturnedZeroed ==
    (last.op = "Alloc" /\ last.end = "ok") => AllZero(mem, last.al.blk)

\* C7 witness: Alloc returned a pooled block over an element that an
\* earlier, since released, block had written with a non-zero value
C7_Witness ==
    /\ last.op = "Alloc" /\ last.end = "ok" /\ last.al.path = "pool"
    /\ \E p \in wrote : /\ p >= last.al.blk.m_pStart
                        /\ p < last.al.blk.m_pStart + SizeofT * last.al.blk.m_Count

\* C8: after an Add the elements at indices 0 .. oldCount-1 hold the values
\* they held before the call and the added values follow them in order.
C8_AddKeepsElements ==
    [][ ArrStep("Add")
          => Elts(mem', arrays'[last'.h])
                = Elts(mem, arrays[last'.h]) \o last'.arg ]_vars

\* C9: an Add of count elements with Count() + count <= Capacity() leaves
\* Capacity() and the backing block unchanged.
C9_NoGrowthWithinCapacity ==
    [][ ( /\ ArrStep("Add")
          /\ arrays[last'.h].m_EltCount + Len(last'.arg) <= Capacity(arrays[last'.h]) )
          => arrays'[last'.h].m_MemBlock = arrays[last'.h].m_MemBlock ]_vars

\* C10: RemoveByIndex(i) with 0 <= i < Count() decrements Count(), puts the
\* former last element at index i, leaves the other remaining elements,
\* Capacity() and the bitmap unchanged.
C10_SwapRemove ==
    [][ ArrStep("RemoveByIndex")
          => LET old == Elts(mem, arrays[last'.h])
                 new == Elts(mem', arrays'[last'.h])
                 i   == last'.arg
             IN  /\ Len(new) = Len(old) - 1
                 /\ \A k \in 1..Len(new) :
                        new[k] = IF k = i + 1 THEN old[Len(old)] ELSE old[k]
                 /\ Capacity(arrays'[last'.h]) = Capacity(arrays[last'.h])
                 /\ Bitmap(mem') = Bitmap(mem) ]_vars

\* C10 witness: [10,20,30] with index 0 removed is [30,20]
C10_Witness ==
    /\ last.op = "RemoveByIndex" /\ last.end = "ok"
    /\ last.arg = 0 /\ last.pre = 3
    /\ Elts(mem, arrays[last.h]) = << 30, 20 >>

\* C11: RemoveByIndexSlide(i) with 0 <= i < Count() decrements Count() and
\* yields the original sequence with element i deleted, the other elements
\* in their original order.
C11_SlideRemove ==
    [][ ArrStep("RemoveByIndexSlide")
          => LET old == Elts(mem, arrays[last'.h])
                 new == Elts(mem', arrays'[last'.h])
                 i   == last'.arg
             IN  /\ Len(new) = Len(old) - 1
                 /\ \A k \in 1..Len(new) :
                        new[k] = IF k <= i THEN old[k] ELSE old[k + 1] ]_vars

\* C11 witness: [10,20,30] with index 0 slid out is [20,30]
C11_Witness ==
    /\ last.op = "RemoveByIndexSlide" /\ last.end = "ok"
    /\ last.arg = 0 /\ last.pre = 3
    /\ Elts(mem, arrays[last.h]) = << 20, 30 >>

\* the block was issued by the pooled exit: it lies in the element buffer
\* and is not a live mem_alloc'ed region
PooledBlock(hl, blk) ==
    /\ blk.m_Count > 0
    /\ InsideBuffer(blk)
    /\ \A r \in hl : r.base # blk.m_pStart

\* C12: Clear() on a non-empty array whose block is pooled sets Count() and
\* Capacity() to 0 and frees every ring of the block, and an Alloc issued
\* right afterwards for the block's element count is served from the pool.
C12_ClearFreesRings ==
    [][ ( /\ ArrStep("Clear")
          /\ arrays[last'.h].m_EltCount > 0
          /\ PooledBlock(heapLive, arrays[last'.h].m_MemBlock) )
          => LET blk == arrays[last'.h].m_MemBlock IN
             /\ arrays'[last'.h].m_EltCount = 0
             /\ Capacity(arrays'[last'.h]) = 0
             /\ \A r \in RingsOf(blk) : mem'[m_aRingUsed + r] = 0
             /\ \A o \in AllocOutcomes(mem', heapLive', blk.m_Count) :
                    o.end = "ok" /\ o.al.path = "pool" ]_vars

\* C13: every initialised array has 0 <= Count() <= Capacity(), whatever
\* calls were made on it.
C13_CountWithinCapacity ==
    \A a \in 1..MaxArrays :
        arrays[a].m_pAllocator # NULL
            => ( /\ 0 <= arrays[a].m_EltCount
                 /\ arrays[a].m_EltCount <= Capacity(arrays[a]) )

\* C13 witness: an append grew the block and filled it to the last slot
C13_Witness ==
    /\ last.op \in { "Add", "AddEmpty" } /\ last.end = "ok"
    /\ last.al.path # "none"
    /\ arrays[last.h].m_EltCount = Capacity(arrays[last.h])
    /\ arrays[last.h].m_EltCount > 1

\* this step is a call that breaks its contract
ContractViolation ==
    /\ (nOps' # nOps \/ last' # last)
    /\ \/ last'.op = "Init" /\ m_pElementBuffer # NULL
       \/ last'.op = "Alloc" /\ m_pElementBuffer = NULL
       \/ last'.op = "DynInit" /\ arrays[last'.h].m_pAllocator # NULL
       \/ /\ last'.op \in { "Reserve", "Add", "AddEmpty", "Clear" }
          /\ arrays[last'.h].m_pAllocator = NULL
       \/ /\ last'.op \in { "At", "RemoveByIndex", "RemoveByIndexSlide" }
          /\ ~(last'.arg >= 0 /\ last'.arg < arrays[last'.h].m_EltCount)
       \/ last'.op = "AddEmpty" /\ last'.arg <= 0

\* C15: a call that breaks its contract (double Init, use before Init, index
\* out of bounds, AddEmpty of no element) ends in a failed assertion.
C15_ViolationsAssert ==
    [][ ContractViolation => last'.end = "assert" ]_vars

\* this step is an Add or AddEmpty that returned after growing the block
GrowStep ==
    /\ (ArrStep("Add") \/ ArrStep("AddEmpty"))
    /\ last'.al.path # "none"

\* elements appended by the call recorded in c
Appended(c) == IF c.op = "Add" THEN Len(c.arg) ELSE c.arg

\* max(oldCapacity*2, oldCount+count) for the array before the call c
Requested(arr, c) ==
    IF Capacity(arr) * 2 > arr.m_EltCount + Appended(c)
    THEN Capacity(arr) * 2 ELSE arr.m_EltCount + Appended(c)

\* C16 as stated: after a growing Add or AddEmpty the capacity equals
\* max(oldCapacity*2, oldCount+count), for pooled and fallback blocks alike.
C16_GrowthExact ==
    [][ GrowStep
          => Capacity(arrays'[last'.h]) = Requested(arrays[last'.h], last') ]_vars

\* C16 amended: after a growing Add or AddEmpty the capacity is at least
\* max(oldCapacity*2, oldCount+count); it equals it for a fallback block and
\* is a multiple of RING_ELT_COUNT for a pooled one.
C16_GrowthAtLeast ==
    [][ GrowStep
          => /\ Capacity(arrays'[last'.h]) >= Requested(arrays[last'.h], last')
             /\ last'.al.path = "heap"
                  => Capacity(arrays'[last'.h]) = Requested(arrays[last'.h], last')
             /\ last'.al.path = "pool"
                  => Capacity(arrays'[last'.h]) % RING_ELT_COUNT = 0 ]_vars

\* C16 witness: a growing append on a non-empty array got a pooled block
\* larger than the capacity it asked for
C16_Witness ==
    /\ last.op \in { "Add", "AddEmpty" } /\ last.end = "ok"
    /\ last.al.path = "pool"
    /\ last.pre > 0
    /\ Capacity(arrays[last.h]) > 2 * last.pre + 2

\* C17: Dealloc leaves the descriptor's count at 0, and a Dealloc through a
\* descriptor whose count is already 0 changes neither the bitmap nor any
\* block, also when another block has since taken the same rings.
C17_SecondDeallocNoOp ==
    [][ (nOps' # nOps /\ last'.op = "Dealloc")
          => /\ blocks'[last'.h].m_Count = 0
             /\ blocks[last'.h].m_Count <= 0
                  => (mem' = mem /\ heapLive' = heapLive /\ blocks' = blocks) ]_vars

\* C17 witness: Dealloc ran through a released descriptor while another
\* descriptor holds a live pooled block at the same start, its rings used
C17_Witness ==
    /\ last.op = "Dealloc" /\ last.arg = 0
    /\ \E h \in 1..MaxBlocks :
          /\ h # last.h
          /\ LivePooled(h)
          /\ blocks[h].m_pStart = blocks[last.h].m_pStart
          /\ \A r \in RingsOf(blocks[h]) : mem[m_aRingUsed + r] = 255

\* C18: DeallocOne of a pointer AllocOne returned from the pool frees the
\* ring that pointer lies in and changes no other bitmap entry.
C18_DeallocOneFreesRing ==
    [][ ( /\ nOps' # nOps
          /\ last'.op = "DeallocOne"
          /\ PooledBlock(heapLive, OneBlock(ptr)) )
          => LET ring == StartOf(OneBlock(ptr)) \div RING_ELT_COUNT IN
             \A r \in 0..(TOTAL_RING_COUNT - 1) :
                mem'[m_aRingUsed + r] = IF r = ring THEN 0 ELSE mem[m_aRingUsed + r] ]_vars

\* C19: a block built by the pooled exit of Alloc ends inside the pool (the
\* assertion "Something went wrong" holds) and the rings Alloc marks are
\* bitmap entries, whatever the bytes after the bitmap hold.
C19_PooledBlockInsidePool ==
    [][ (AllocStep /\ last'.al.path = "pool")
          => /\ last'.end = "ok"
             /\ last'.al.start * RING_ELT_COUNT + last'.al.blk.m_Count <= ELT_COUNT_MAX
             /\ last'.al.start + last'.al.rings <= TOTAL_RING_COUNT ]_vars

\* C14: a CDynArraySB starts on its inline storage with capacity
\* BASE_COUNT, and once its active storage is a separately allocated buffer
\* no clear, alloc or set_size_zero makes it the inline storage again.
C14_NeverBackInline ==
    /\ sb.list = BaseData /\ sb.list_size = BASE_COUNT
    /\ [][ sb.list # BaseData => sb'.list # BaseData ]_vars

\* C14 witness: an array that had switched to a separate buffer was cleared
\* after shrinking and is still on a separate buffer
C14_Witness ==
    /\ last.op = "SBClear"
    /\ nOps >= 3
    /\ sb.list \in SBHeap
    /\ sb.num_elements = 0

\* the arrays whose current block holds the elements of ring r
OwnersOf(r) ==
    { a \in 1..MaxArrays :
        /\ arrays[a].m_MemBlock.m_Count > 0
        /\ InsideBuffer(arrays[a].m_MemBlock)
        /\ r \in RingsOf(arrays[a].m_MemBlock) }

\* C20: with arrays as the allocator's only users, every ring marked used
\* belongs to the current block of exactly one array (so the bitmap is all
\* free once every array has been cleared).
C20_NoRingLeak ==
    (m_pElementBuffer # NULL /\ ~aborted)
        => \A r \in 0..(TOTAL_RING_COUNT - 1) :
              mem[m_aRingUsed + r] # 0 => Cardinality(OwnersOf(r)) = 1

\* C21: Add and AddEmpty return a reference to the first of the elements
\* they appended, i.e. to index oldCount of the array's current block.
C21_ReturnsFirstAppended ==
    [][ (ArrStep("Add") \/ ArrStep("AddEmpty"))
          => last'.ret = Data(arrays'[last'.h]) + SizeofT * last'.pre ]_vars

\* the buffer region lies within the m_AllocatedSize bytes reserved by Init
BufferReserved ==
    /\ m_pElementBuffer >= m_aRingUsed
    /\ BufferEnd <= m_aRingUsed + m_AllocatedSize

\* the bitmap bytes [0, TOTAL_RING_COUNT) end where the buffer starts or before
BitmapClear == m_aRingUsed + TOTAL_RING_COUNT <= m_pElementBuffer

\* AllocatedSize() is the bitmap bytes plus the buffer bytes
SizeIsSum == m_AllocatedSize = TOTAL_RING_COUNT + SizeofT * ELT_COUNT_MAX

\* C22: after Init, for every ElementCountMax and RingElementCount, the
\* element buffer lies entirely within the bytes Init reserved, the bitmap
\* does not overlap it, and AllocatedSize() is bitmap bytes plus buffer bytes.
C22_BufferInsideReservation ==
    (m_pElementBuffer # NULL /\ ~aborted)
        => (BufferReserved /\ BitmapClear /\ SizeIsSum)

====
